---- MODULE Spec2Model ----
(***************************************************************************)
(* dsa::Hash_map<Key, Value> (data-structures/hash-map/hashmap.h): an open *)
(* addressing hash map with linear probing, tombstones and growth by       *)
(* doubling.  Key = Value = int, std::hash<int> is the identity.           *)
(*                                                                         *)
(* Heap arrays are modelled as blocks of a heap indexed by address, so     *)
(* that two objects share storage exactly when their pointers are equal.   *)
(* A double d is represented by the integer 100 * d (hundredths); every    *)
(* load factor the model uses is a multiple of 0.01, and capacities are    *)
(* powers of two, so the truncation of d * capacity is the integer         *)
(* quotient (100 d * capacity) \div 100.                                   *)
(* A size_t x is represented by the integer congruent to x modulo 2^64     *)
(* that is nearest to 0: 2^64 - 1 is written -1.  The unsigned order is    *)
(* SizeGE.                                                                 *)
(***************************************************************************)
EXTENDS Integers, FiniteSets, Sequences, TLC

VARIABLES heap, maps, status, grown, fresh, removed, copyRel

vars == <<heap, maps, status, grown, fresh, removed, copyRel>>

----------------------------------------------------------------------------
(* Bounds of the model *)

\* the number of keys in use
NumKeys == 3
\* values written by insert are 1 .. MaxVal (0 is Value())
MaxVal == 1
\* operator new fails (std::bad_alloc) for more than 2^MaxCapLog elements
MaxCapLog == 3
\* the number of keys in use when two maps are exercised together
NumPairKeys == 2
\* the number of keys in use when one default map sees inserts and removes
\* only: one more than the slots of a table of capacity 4
NumSeekKeys == 5

\* the keys, in the order they come into use: 0, 8 and 4 share the home slot
\* 0 of a table of capacity 4, 0 and 8 that of a table of capacity 8
KeySeq == <<0, 8, 4, 1, 9, 5>>

Keys == {KeySeq[i] : i \in 1..NumKeys}
Vals == 1..MaxVal
MaxCapacity == 2^MaxCapLog
\* sizes passed to the constructor: below the floor of 4, the default 4, and
\* 5, which is rounded up to 8
ReqSizes == {0, 4, 5}
PairKeys == {KeySeq[i] : i \in 1..NumPairKeys}
SeekKeys == {KeySeq[i] : i \in 1..NumSeekKeys}
\* load factors passed to set_max_load_factor, in hundredths: 0.05, below
\* maxlf_min, and 0.90, above maxlf_max
LoadFactors == {5, 90}
\* load factors passed to the constructor: 0.05, 0.50 and the default 0.75
CtorLoadFactors == {5, 50, 75}
\* the load factors the first of two maps exercised together is constructed
\* with: 0.05, which is clamped to 0.2 and makes the threshold of a table of
\* capacity 4 zero, and the default
PairCtorLoadFactors == {5, 75}

Objs == {"A", "B"}

Other(o) == IF o = "A" THEN "B" ELSE "A"

----------------------------------------------------------------------------
(* Program constants *)

maxlf_max == 75
maxlf_min == 20
\* nullptr
Null == 0
\* Key() and Value(), the value-initialised array elements
DefaultKey == 0
DefaultValue == 0
\* operator[] and remove never found a slot: seek does not return
NoIndex == -1

\* enum Mark { null, live, dead }
Marks == {"null", "live", "dead"}

\* std::hash<int>
hasher_(k) == k

----------------------------------------------------------------------------
(* Integer helpers *)

RECURSIVE BitAnd(_, _)
\* a & b on non-negative integers
BitAnd(a, b) ==
  IF a = 0 \/ b = 0 THEN 0
  ELSE (IF a % 2 = 1 /\ b % 2 = 1 THEN 1 ELSE 0) + 2 * BitAnd(a \div 2, b \div 2)

RECURSIVE BitLen(_)
\* the number of significant bits of x: 32 - __builtin_clz(x) for 0 < x < 2^32
BitLen(x) == IF x = 0 THEN 0 ELSE 1 + BitLen(x \div 2)

\* __builtin_clz on a 32-bit unsigned
Clz32(x) == 32 - BitLen(x)

\* size_ >= threshold_size_ on size_t (unsigned 64-bit) representatives
SizeGE(a, b) == IF (a >= 0) = (b >= 0) THEN a >= b ELSE a < 0

\* the conversion double -> size_t of max_load_factor_ * capacity_
Trunc(lf, cap) == (lf * cap) \div 100

----------------------------------------------------------------------------
(* The heap *)

\* the address operator new[] returns: the least one not in use
NewAddr(h) ==
  CHOOSE a \in 1..(Cardinality(DOMAIN h) + 1) :
    a \notin DOMAIN h /\ \A b \in 1..(a - 1) : b \in DOMAIN h

\* new T[n](): n value-initialised elements at a fresh address
Allocate(h, p, n, init) ==
  [a \in DOMAIN h \cup {p} |-> IF a = p THEN [i \in 0..(n - 1) |-> init] ELSE h[a]]

\* new Key[n](), new Value[n]() and new Mark[n](), in this order
NewArrays(h, n) ==
  LET pk == NewAddr(h)
      h1 == Allocate(h, pk, n, DefaultKey)
      pv == NewAddr(h1)
      h2 == Allocate(h1, pv, n, DefaultValue)
      pm == NewAddr(h2)
  IN [h |-> Allocate(h2, pm, n, "null"),
      keys_ |-> pk, values_ |-> pv, marks_ |-> pm]

\* delete[] p; delete[] nullptr does nothing
Release(h, p) == [a \in DOMAIN h \ {p} |-> h[a]]

\* *(p + i) = x
Store(h, p, i, x) == [h EXCEPT ![p] = [@ EXCEPT ![i] = x]]

\* the three arrays of m can be indexed: the pointers are not null and the
\* blocks they point to are allocated, with capacity_ elements
Usable(h, m) ==
  /\ m.keys_ \in DOMAIN h /\ DOMAIN h[m.keys_] = 0..(m.capacity_ - 1)
  /\ m.values_ \in DOMAIN h /\ DOMAIN h[m.values_] = 0..(m.capacity_ - 1)
  /\ m.marks_ \in DOMAIN h /\ DOMAIN h[m.marks_] = 0..(m.capacity_ - 1)

----------------------------------------------------------------------------
(* Normalisation *)

\* normalize_capacity without the rounding up to a power of two
normalize_capacity_unrounded(cap) == IF cap < 4 THEN 4 ELSE cap

normalize_capacity(cap) ==
  IF cap < 4 THEN 4
  ELSE IF BitAnd(cap - 1, cap) # 0 THEN 2^(32 - Clz32(cap))
  ELSE cap

\* normalize_capacity of the size_t hi * 2^32 + lo, for 0 < lo < 2^30 and
\* hi > 0: the value is above 4 and no power of two, __builtin_clz takes an
\* unsigned int, so the argument is converted to its low 32 bits, and the
\* result of the int shift is converted back to size_t
normalize_capacity_wide(hi, lo) ==
  IF hi = 0 THEN normalize_capacity(lo) ELSE 2^(32 - Clz32(lo))

normalize_maxlf(maxlf) ==
  IF maxlf < maxlf_min THEN maxlf_min
  ELSE IF maxlf > maxlf_max THEN maxlf_max
  ELSE maxlf

----------------------------------------------------------------------------
(* Construction *)

\* Hash_map(size, max_load_factor): the members are initialised in the order
\* of their declaration: size_, capacity_, keys_, values_, marks_,
\* max_load_factor_, threshold_size_
ConstructWith(h, cap, lf) ==
  [h |-> NewArrays(h, cap).h,
   m |-> [size_ |-> 0, capacity_ |-> cap, keys_ |-> NewArrays(h, cap).keys_,
          values_ |-> NewArrays(h, cap).values_,
          marks_ |-> NewArrays(h, cap).marks_,
          max_load_factor_ |-> lf, threshold_size_ |-> Trunc(lf, cap)]]

Construct(h, size, max_load_factor) ==
  ConstructWith(h, normalize_capacity(size), normalize_maxlf(max_load_factor))

\* the same for a size argument hi * 2^32 + lo
ConstructWide(h, hi, lo, max_load_factor) ==
  ConstructWith(h, normalize_capacity_wide(hi, lo),
                normalize_maxlf(max_load_factor))

----------------------------------------------------------------------------
(* seek *)

RECURSIVE SeekFrom(_, _, _, _, _)
\* the loop of seek from index; NoIndex when it has probed every slot
\* without finding the key or a null mark, from where it goes round forever
SeekFrom(h, m, k, index, steps) ==
  IF steps >= m.capacity_ THEN NoIndex
  ELSE IF h[m.keys_][index] # k /\ h[m.marks_][index] # "null"
       THEN SeekFrom(h, m, k, BitAnd(index + 1, m.capacity_ - 1), steps + 1)
       ELSE index

seek(h, m, k) == SeekFrom(h, m, k, BitAnd(hasher_(k), m.capacity_ - 1), 0)

----------------------------------------------------------------------------
(* clear and increase_capacity *)

clear(h, m) ==
  [h |-> Release(Release(Release(h, m.keys_), m.values_), m.marks_),
   m |-> [size_ |-> 0, capacity_ |-> 0, keys_ |-> Null, values_ |-> Null,
          marks_ |-> Null, max_load_factor_ |-> 0, threshold_size_ |-> 0]]

\* the probe loop left out: the home slot, whatever it holds
ProbeNullNoLoop(tmp_marks, index, keep_bits) == index

RECURSIVE ProbeNull(_, _, _)
\* the inner loop of increase_capacity: the first null mark from index
ProbeNull(tmp_marks, index, keep_bits) ==
  IF tmp_marks[index] # "null"
  THEN ProbeNull(tmp_marks, BitAnd(index + 1, keep_bits), keep_bits)
  ELSE index

RECURSIVE Rehash(_, _, _, _, _)
\* the for loop of increase_capacity from slot i on; t holds the new arrays
Rehash(h, m, i, keep_bits, t) ==
  IF i >= m.capacity_ THEN t
  ELSE IF h[m.marks_][i] = "live"
  THEN LET index == ProbeNull(t.marks, BitAnd(hasher_(h[m.keys_][i]), keep_bits),
                              keep_bits)
       IN Rehash(h, m, i + 1, keep_bits,
                 [keys |-> [t.keys EXCEPT ![index] = h[m.keys_][i]],
                  values |-> [t.values EXCEPT ![index] = h[m.values_][i]],
                  marks |-> [t.marks EXCEPT ![index] = h[m.marks_][i]]])
  ELSE Rehash(h, m, i + 1, keep_bits, t)

\* tmp_keys, tmp_values and tmp_marks as new[] leaves them
Blank(n) ==
  [keys |-> [i \in 0..(n - 1) |-> DefaultKey],
   values |-> [i \in 0..(n - 1) |-> DefaultValue],
   marks |-> [i \in 0..(n - 1) |-> "null"]]

\* the heap once the for loop has filled the new arrays a with t
Filled(a, t) ==
  [a.h EXCEPT ![a.keys_] = t.keys, ![a.values_] = t.values,
              ![a.marks_] = t.marks]

\* the std::tie that follows clear(), whose result is c: max_load_factor_ *
\* capacity_ is computed from the members clear() has just zeroed
Retie(c, tmp_cap, a) ==
  [h |-> c.h,
   m |-> [c.m EXCEPT !.capacity_ = tmp_cap, !.keys_ = a.keys_,
                     !.values_ = a.values_, !.marks_ = a.marks_,
                     !.threshold_size_ =
                        Trunc(c.m.max_load_factor_, c.m.capacity_)],
   out |-> "ok"]

\* increase_capacity once the three arrays a are allocated
Regrow(h, m, tmp_cap, a) ==
  Retie(clear(Filled(a, Rehash(h, m, 0, tmp_cap - 1, Blank(tmp_cap))), m),
        tmp_cap, a)

\* one growth step.  The allocation fails beyond MaxCapacity and the
\* exception leaves the object as it was.
increase_capacity(h, m) ==
  LET tmp_cap == IF m.capacity_ = 0 THEN 4 ELSE m.capacity_ * 2
  IN IF tmp_cap > MaxCapacity THEN [h |-> h, m |-> m, out |-> "bad_alloc"]
     ELSE Regrow(h, m, tmp_cap, NewArrays(h, tmp_cap))

----------------------------------------------------------------------------
(* The operations *)

\* keys_[index] and marks_[index] can be read for every index seek computes:
\* the arrays exist and have capacity_ > 0 elements.  Without that, seek
\* indexes a null pointer or an array of no elements: undefined behaviour.
Indexable(h, m) == Usable(h, m) /\ m.capacity_ > 0

RECURSIVE GrowWhile(_, _, _)
\* the loop after one call of increase_capacity, whose result is g; grew
\* counts the growth steps that completed
GrowNext(g, grew) ==
  IF g.out = "ok" THEN GrowWhile(g.h, g.m, grew + 1)
  ELSE [h |-> g.h, m |-> g.m, out |-> g.out, grew |-> grew]

\* a loop that grows as soon as the entry to come would reach the threshold
GrowWhileEager(h, m, grew) ==
  IF SizeGE(m.size_ + 1, m.threshold_size_)
  THEN GrowNext(increase_capacity(h, m), grew)
  ELSE [h |-> h, m |-> m, out |-> "ok", grew |-> grew]

\* while (size_ >= threshold_size_) increase_capacity();
GrowWhile(h, m, grew) ==
  IF SizeGE(m.size_, m.threshold_size_)
  THEN GrowNext(increase_capacity(h, m), grew)
  ELSE [h |-> h, m |-> m, out |-> "ok", grew |-> grew]

\* keys_[index] = k; marks_[index] = live; size_++, after the growth loop,
\* whose result is g: index is the one seek computed before the loop
Land(g, index, k) ==
  IF g.out # "ok"
  THEN [h |-> g.h, m |-> g.m, out |-> g.out, index |-> index, grew |-> g.grew]
  ELSE [h |-> Store(Store(g.h, g.m.keys_, index, k), g.m.marks_, index, "live"),
        m |-> [g.m EXCEPT !.size_ = @ + 1],
        out |-> "ok", index |-> index, grew |-> g.grew]

\* operator[] from the slot seek gave
SubscriptAt(h, m, k, index) ==
  IF index = NoIndex
  THEN [h |-> h, m |-> m, out |-> "hang", index |-> NoIndex, grew |-> 0]
  ELSE IF h[m.marks_][index] = "null"
  THEN Land(GrowWhile(h, m, 0), index, k)
  ELSE [h |-> h, m |-> m, out |-> "ok", index |-> index, grew |-> 0]

\* operator[]: index is the slot whose value the returned reference names
Subscript(h, m, k) ==
  IF ~Indexable(h, m)
  THEN [h |-> h, m |-> m, out |-> "undefined", index |-> NoIndex, grew |-> 0]
  ELSE SubscriptAt(h, m, k, seek(h, m, k))

\* the assignment to the reference operator[] returned (r)
Assigned(r, v) ==
  IF r.out = "ok"
  THEN [r EXCEPT !.h = Store(r.h, r.m.values_, r.index, v)]
  ELSE r

\* insert: operator[](k) = v
insert(h, m, k, v) == Assigned(Subscript(h, m, k), v)

\* set is insert
set(h, m, k, v) == insert(h, m, k, v)

remove(h, m, k) ==
  IF ~Indexable(h, m) THEN [h |-> h, m |-> m, out |-> "undefined"]
  ELSE
    LET index == seek(h, m, k)
    IN IF index = NoIndex THEN [h |-> h, m |-> m, out |-> "hang"]
       ELSE IF h[m.marks_][index] = "live"
       THEN [h |-> Store(h, m.marks_, index, "dead"),
             m |-> [m EXCEPT !.size_ = @ - 1], out |-> "ok"]
       ELSE [h |-> h, m |-> m, out |-> "ok"]

\* contains: "true" or "false", or how the call fails to return
contains(h, m, k) ==
  IF ~Indexable(h, m) THEN "undefined"
  ELSE LET index == seek(h, m, k)
       IN IF index = NoIndex THEN "hang"
          ELSE IF h[m.marks_][index] = "live" THEN "true" ELSE "false"

RECURSIVE EqualsFrom(_, _, _, _)
\* the for loop of operator== from slot i on.  rhs[keys_[i]] is reached only
\* after rhs.contains(keys_[i]) returned true, where operator[] finds the
\* live slot and changes nothing.
EqualsFrom(h, m, rhs, i) ==
  IF i >= m.capacity_ THEN "true"
  ELSE LET c == contains(h, rhs, h[m.keys_][i])
       IN IF c = "false" THEN "false"
          ELSE IF c # "true" THEN c
          ELSE IF h[m.values_][i] # h[rhs.values_][seek(h, rhs, h[m.keys_][i])]
          THEN "false"
          ELSE EqualsFrom(h, m, rhs, i + 1)

\* operator==; same is this == &rhs
equals(h, m, rhs, same) ==
  IF same THEN "true"
  ELSE IF m.size_ # rhs.size_ THEN "false"
  ELSE EqualsFrom(h, m, rhs, 0)

\* the one call of increase_capacity of set_max_load_factor, whose result is g
GrownOnce(g) ==
  [h |-> g.h, m |-> g.m, out |-> g.out,
   grew |-> IF g.out = "ok" THEN 1 ELSE 0]

set_max_load_factor(h, m, x) ==
  LET lf == normalize_maxlf(x)
      m1 == [m EXCEPT !.max_load_factor_ = lf,
                      !.threshold_size_ = Trunc(lf, m.capacity_)]
  IN IF SizeGE(m1.size_, m1.threshold_size_)
     THEN GrownOnce(increase_capacity(h, m1))
     ELSE [h |-> h, m |-> m1, out |-> "ok", grew |-> 0]

RECURSIVE CopyValues(_, _, _, _, _)
\* the loop of the copy constructor from slot i on: the values are read from
\* other.keys_
CopyValues(h, m, other, i, n) ==
  IF i >= n THEN h
  ELSE CopyValues(Store(Store(Store(h, m.keys_, i, h[other.keys_][i]),
                              m.values_, i, h[other.keys_][i]),
                        m.marks_, i, h[other.marks_][i]),
                  m, other, i + 1, n)

\* a copy that takes the pointers of other instead of new arrays
CopyConstructShallow(h, other) == [h |-> h, m |-> other]

\* Hash_map(const Hash_map& other)
CopyConstruct(h, other) ==
  LET cap == other.capacity_
      lf == other.max_load_factor_
      a == NewArrays(h, cap)
      m == [size_ |-> other.size_, capacity_ |-> cap, keys_ |-> a.keys_,
            values_ |-> a.values_, marks_ |-> a.marks_,
            max_load_factor_ |-> lf, threshold_size_ |-> Trunc(lf, cap)]
  IN [h |-> CopyValues(a.h, m, other, 0, cap), m |-> m]

RECURSIVE AssignValues(_, _, _, _, _)
\* the loop of operator= from slot i on
AssignValues(h, m, rhs, i, n) ==
  IF i >= n THEN h
  ELSE AssignValues(Store(Store(Store(h, m.keys_, i, h[rhs.keys_][i]),
                                m.values_, i, h[rhs.values_][i]),
                          m.marks_, i, h[rhs.marks_][i]),
                    m, rhs, i + 1, n)

\* operator=; same is this == &rhs
CopyAssign(h, m, rhs, same) ==
  IF same THEN [h |-> h, m |-> m]
  ELSE
    LET a == NewArrays(clear(h, m).h, rhs.capacity_)
        m1 == [size_ |-> rhs.size_, capacity_ |-> rhs.capacity_,
               keys_ |-> a.keys_, values_ |-> a.values_, marks_ |-> a.marks_,
               max_load_factor_ |-> rhs.max_load_factor_,
               threshold_size_ |-> rhs.threshold_size_]
    IN [h |-> AssignValues(a.h, m1, rhs, 0, rhs.capacity_), m |-> m1]

\* size(), capacity(), max_load_factor()
size(m) == m.size_
capacity(m) == m.capacity_
max_load_factor(m) == m.max_load_factor_

----------------------------------------------------------------------------
(* What a caller observes of a map *)

\* the value stored for a key that contains(k) reports: values_[seek(k)]
stored(h, m, k) == h[m.values_][seek(h, m, k)]

\* what a call of operator[] that ended as r gives its caller: how it ended
\* and, when it returned, the value the returned reference names
Given(r) ==
  [out |-> r.out,
   value |-> IF r.out = "ok" THEN r.h[r.m.values_][r.index] ELSE DefaultValue]

\* at(k): what the call m[k] gives its caller
at(h, m, k) == Given(Subscript(h, m, k))

\* at(k) returned v
Returned(v) == [out |-> "ok", value |-> v]

\* the keys contains() reports
LiveKeys(h, m) == {k \in Keys : contains(h, m, k) = "true"}

\* the (key, value) pairs the map holds
LivePairs(h, m) == {<<k, stored(h, m, k)>> : k \in LiveKeys(h, m)}

\* size(), and contains(k) and at(k) for every key
Observe(h, m) ==
  [size |-> size(m),
   has |-> [k \in Keys |-> contains(h, m, k)],
   val |-> [k \in Keys |-> at(h, m, k)]]

----------------------------------------------------------------------------
(* The state machine *)

(***************************************************************************)
(* heap     the arrays allocated with new[], by address                    *)
(* maps     the two Hash_map objects, A and B                              *)
(* status   how the last operation ended: "ok" (it returned), "bad_alloc"  *)
(*          (operator new threw and the caller caught it), "hang" (it does *)
(*          not return) or "undefined" (it indexed an array it does not    *)
(*          have); after the last two the program goes no further          *)
(* grown    the growth steps the last operation completed                  *)
(* fresh    per object, whether it has seen nothing but its constructor    *)
(*          and inserts of distinct keys, with the constructor's arguments *)
(*          and those keys                                                 *)
(* removed  per object, the key last removed while it was live, until an   *)
(*          operation names it again (a set of one key at most)            *)
(* copyRel  one of the objects was copied from the other, and only         *)
(*          operator[], insert, set and remove have been called since      *)
(***************************************************************************)

Running == status \in {"ok", "bad_alloc"}

Pure(sz, lf) == [pure |-> TRUE, keys |-> {}, size |-> sz, lf |-> lf]
Impure == [pure |-> FALSE, keys |-> {}, size |-> 0, lf |-> 0]

\* the operation returned or threw: the object is what it left
Apply(o, r, g) ==
  /\ heap' = r.h
  /\ maps' = [maps EXCEPT ![o] = r.m]
  /\ status' = r.out
  /\ grown' = g

\* the same for an operation that counts its growth steps
ApplyGrown(o, r) == Apply(o, r, r.grew)

\* the operation returned, leaving c
Returns(c) == [h |-> c.h, m |-> c.m, out |-> "ok"]

Init ==
  \E sz \in ReqSizes, lf \in CtorLoadFactors :
    LET a == Construct(<<>>, sz, lf)
        b == Construct(a.h, 4, 75)
    IN /\ heap = b.h
       /\ maps = [o \in Objs |-> IF o = "A" THEN a.m ELSE b.m]
       /\ status = "ok"
       /\ grown = 0
       /\ fresh = [o \in Objs |-> IF o = "A" THEN Pure(sz, lf) ELSE Pure(4, 75)]
       /\ removed = [o \in Objs |-> {}]
       /\ copyRel = FALSE

Insert(o, k, v) ==
  /\ Running
  /\ ApplyGrown(o, insert(heap, maps[o], k, v))
  /\ fresh' = [fresh EXCEPT ![o] = IF @.pure /\ k \notin @.keys
                                   THEN [@ EXCEPT !.keys = @ \cup {k}]
                                   ELSE Impure]
  /\ removed' = [removed EXCEPT ![o] = @ \ {k}]
  /\ UNCHANGED copyRel

\* set(k, v) is insert(k, v)
Set(o, k, v) == Insert(o, k, v)

Remove(o, k) ==
  /\ Running
  /\ LET r == remove(heap, maps[o], k)
     IN /\ Apply(o, r, 0)
        /\ removed' = [removed EXCEPT ![o] =
                         IF r.out = "ok" /\ contains(heap, maps[o], k) = "true"
                         THEN {k} ELSE @]
  /\ fresh' = [fresh EXCEPT ![o] = Impure]
  /\ UNCHANGED copyRel

SetMaxLoadFactor(o, x) ==
  /\ Running
  /\ ApplyGrown(o, set_max_load_factor(heap, maps[o], x))
  /\ fresh' = [fresh EXCEPT ![o] = Impure]
  /\ removed' = [removed EXCEPT ![o] = {}]
  /\ copyRel' = FALSE

Clear(o) ==
  /\ Running
  /\ Apply(o, Returns(clear(heap, maps[o])), 0)
  /\ fresh' = [fresh EXCEPT ![o] = Impure]
  /\ removed' = [removed EXCEPT ![o] = {}]
  /\ copyRel' = FALSE

\* the object o ends (its destructor is clear()) and a new object is copy
\* constructed from src in its place
CopyConstructFrom(o, src) ==
  /\ Running
  /\ o # src
  /\ Apply(o, Returns(CopyConstruct(clear(heap, maps[o]).h, maps[src])), 0)
  /\ fresh' = [fresh EXCEPT ![o] = Impure]
  /\ removed' = [removed EXCEPT ![o] = {}]
  /\ copyRel' = TRUE

\* o = src
Assign(o, src) ==
  /\ Running
  /\ Apply(o, Returns(CopyAssign(heap, maps[o], maps[src], o = src)), 0)
  /\ fresh' = [fresh EXCEPT ![o] = Impure]
  /\ removed' = [removed EXCEPT ![o] = IF o = src THEN @ ELSE {}]
  /\ copyRel' = IF o = src THEN copyRel ELSE TRUE

\* o == p: the caller sees the result; the maps are as they were unless the
\* comparison does not return
Compare(o, p) ==
  /\ Running
  /\ LET e == equals(heap, maps[o], maps[p], o = p)
     IN Apply(o, [h |-> heap, m |-> maps[o],
                  out |-> IF e \in {"true", "false"} THEN "ok" ELSE e], 0)
  /\ UNCHANGED <<fresh, removed, copyRel>>

\* one map, A, and every operation on it; B is a default-constructed map
\* that A is assigned from.  insert stands for set, which is insert, and for
\* operator[], which insert calls.
Next ==
  \/ \E k \in Keys, v \in Vals : Insert("A", k, v)
  \/ \E k \in Keys : Remove("A", k)
  \/ \E x \in LoadFactors : SetMaxLoadFactor("A", x)
  \/ Clear("A")
  \/ Assign("A", "B")

Spec == Init /\ [][Next]_vars

\* two maps, copied from and compared with each other
NextCopy ==
  \E o \in Objs :
    \/ \E k \in PairKeys, v \in Vals : Insert(o, k, v)
    \/ \E k \in PairKeys : Remove(o, k)
    \/ Clear(o)
    \/ CopyConstructFrom(o, Other(o))
    \/ \E src \in Objs : Assign(o, src)
    \/ \E p \in Objs : Compare(o, p)

\* A is constructed with (4, 0.05) or (4, 0.75), B with the defaults
InitCopy ==
  Init /\ fresh["A"].size = 4 /\ fresh["A"].lf \in PairCtorLoadFactors

SpecCopy == InitCopy /\ [][NextCopy]_vars

\* a default-constructed map that sees inserts and removes only
NextSeek ==
  \/ \E k \in SeekKeys, v \in Vals : Insert("A", k, v)
  \/ \E k \in SeekKeys : Remove("A", k)

InitSeek == Init /\ fresh["A"].size = 4 /\ fresh["A"].lf = 75

SpecSeek == InitSeek /\ [][NextSeek]_vars

\* the constructor on its own.  The size argument is the size_t
\* hi * 2^32 + lo: every size up to MaxCapacity, and 2^32 + 1
CtorSizes ==
  {[hi |-> 0, lo |-> n] : n \in 0..MaxCapacity} \cup {[hi |-> 1, lo |-> 1]}
\* the load factor argument: 0.00, 0.05, ..., 1.00
CtorArgLoadFactors == {5 * i : i \in 0..20}

\* the object o ends and a new one is constructed in its place with the
\* size hi * 2^32 + lo and the load factor f; fresh keeps the low word
Reconstruct(o, hi, lo, f) ==
  /\ Running
  /\ Apply(o, Returns(ConstructWide(clear(heap, maps[o]).h, hi, lo, f)), 0)
  /\ fresh' = [fresh EXCEPT ![o] = Pure(lo, f)]
  /\ removed' = [removed EXCEPT ![o] = {}]
  /\ copyRel' = FALSE

NextCtor ==
  \E w \in CtorSizes, f \in CtorArgLoadFactors : Reconstruct("A", w.hi, w.lo, f)

SpecCtor == InitCopy /\ [][NextCtor]_vars

----------------------------------------------------------------------------
(* Claims *)

\* the threshold the accessors give: max_load_factor() x capacity(), truncated
Threshold(m) == Trunc(max_load_factor(m), capacity(m))

\* n is a power of two
IsPowerOfTwo(n) == \E e \in 0..(MaxCapLog + 1) : n = 2^e

\* the size_t after is exactly one less than the size_t before: the
\* subtraction did not wrap round from 0 to 2^64 - 1
OneLess(after, before) == before # 0 /\ after = before - 1

\* the size_t after is exactly one more than the size_t before
OneMore(after, before) == after # 0 /\ after = before + 1

\* the slots of m marked live that hold k
LiveSlots(h, m, k) ==
  IF Indexable(h, m)
  THEN {i \in 0..(m.capacity_ - 1) : h[m.marks_][i] = "live" /\ h[m.keys_][i] = k}
  ELSE {}

\* C1: after any sequence of inserts of distinct keys into a freshly
\* constructed map, every insert has returned, size() is the number of keys
\* inserted and contains(k) is true for each of them.
C1_DistinctInserts ==
  \A o \in Objs :
    fresh[o].pure /\ fresh[o].keys # {} =>
      /\ status = "ok"
      /\ size(maps[o]) = Cardinality(fresh[o].keys)
      /\ \A k \in fresh[o].keys : contains(heap, maps[o], k) = "true"

\* C2: after a mutating operation (insert/set/at, remove,
\* set_max_load_factor) has returned, size() < threshold, the threshold being
\* max_load_factor() x capacity() truncated.
C2_SizeBelowThreshold ==
  [][\A o \in Objs :
       /\ \/ \E k \in Keys, v \in Vals : Insert(o, k, v) \/ Set(o, k, v)
          \/ \E k \in Keys : Remove(o, k)
          \/ \E x \in LoadFactors : SetMaxLoadFactor(o, x)
       /\ status' = "ok"
       => ~SizeGE(size(maps'[o]), Threshold(maps'[o]))]_vars

\* C3: insert k, remove(k), insert k again with value v2 (operations on
\* other keys in between): afterwards contains(k) is true, at(k) is v2 and
\* size() has counted the one live entry of k.
C3_ReinsertAfterRemove ==
  [][\A o \in Objs, k \in Keys, v \in Vals :
       Insert(o, k, v) /\ k \in removed[o] =>
         /\ status' = "ok"
         /\ contains(heap', maps'[o], k) = "true"
         /\ at(heap', maps'[o], k) = Returned(v)
         /\ Cardinality(LiveSlots(heap', maps'[o], k)) = 1
         /\ OneMore(size(maps'[o]), size(maps[o]))]_vars

\* C4: growth preserves the live entries: for every key k that was live
\* before an operation that grew the table (an insert, or
\* set_max_load_factor), contains(k) is true afterwards and at(k) returns the
\* value k had.
C4_GrowthPreservesLive ==
  [][grown' > 0 =>
       \A o \in Objs : \A k \in LiveKeys(heap, maps[o]) :
         /\ contains(heap', maps'[o], k) = "true"
         /\ at(heap', maps'[o], k) = Returned(stored(heap, maps[o], k))]_vars

\* an insert has grown a table that holds two live entries or more (the
\* growth loop of operator[] ends when operator new throws)
C4_Witness ==
  /\ grown > 0
  /\ status = "bad_alloc"
  /\ Cardinality(LiveKeys(heap, maps["A"])) >= 2

\* set_max_load_factor has grown a table that holds two live entries or more
C4_WitnessSetMaxLoadFactor ==
  /\ grown > 0
  /\ status = "ok"
  /\ Cardinality(LiveKeys(heap, maps["A"])) >= 2

\* C5: after remove(k) of a live key k, contains(k) is false and size() is
\* exactly one less than before.
C5_RemoveLive ==
  [][\A o \in Objs, k \in Keys :
       Remove(o, k) /\ contains(heap, maps[o], k) = "true" =>
         /\ status' = "ok"
         /\ contains(heap', maps'[o], k) = "false"
         /\ OneLess(size(maps'[o]), size(maps[o]))]_vars

\* C6: A == B is true if and only if A and B hold the same live (key, value)
\* pairs, whatever the insertion order, the tombstones and the capacity; two
\* empty maps are equal.
C6_EqualsIffSameLivePairs ==
  Running =>
    \A o \in Objs :
      equals(heap, maps[o], maps[Other(o)], FALSE) = "true"
        <=> LivePairs(heap, maps[o]) = LivePairs(heap, maps[Other(o)])

\* b is an element-wise duplicate of a
Duplicate(h, b, a) ==
  /\ size(b) = size(a)
  /\ capacity(b) = capacity(a)
  /\ max_load_factor(b) = max_load_factor(a)
  /\ b.threshold_size_ = a.threshold_size_
  /\ \A i \in 0..(capacity(a) - 1) :
       /\ h[b.keys_][i] = h[a.keys_][i]
       /\ h[b.values_][i] = h[a.values_][i]
       /\ h[b.marks_][i] = h[a.marks_][i]
  /\ \A k \in LiveKeys(h, a) :
       contains(h, b, k) = "true" /\ at(h, b, k) = at(h, a, k)

\* C7: copy construction and copy assignment both make the new map an
\* element-wise duplicate of the source: same size(), capacity(),
\* max_load_factor() and threshold, the same key, value and mark in every
\* slot, and so the same contains(k) and at(k) for every live key.
C7_CopyDuplicates ==
  [][\A o \in Objs :
       CopyConstructFrom(o, Other(o)) \/ Assign(o, Other(o)) =>
         Duplicate(heap', maps'[o], maps'[Other(o)])]_vars

\* C8: copy independence: once one map is a copy of the other, an insert or
\* a remove on either leaves size(), contains(k) and at(k) of the other as
\* they were, for every key k.  Stated from the other map's side: a step
\* that changes what it shows is no insert and no remove on its copy.
C8_CopyIndependence ==
  [][\A o \in Objs :
       /\ copyRel
       /\ Observe(heap', maps'[Other(o)]) # Observe(heap, maps[Other(o)])
       => ~ \/ \E k \in Keys, v \in Vals : Insert(o, k, v)
            \/ \E k \in Keys : Remove(o, k)]_vars

\* a map and its copy, with tables both can index, have come to hold
\* different keys
C8_Witness ==
  /\ copyRel
  /\ status = "ok"
  /\ Indexable(heap, maps["A"]) /\ Indexable(heap, maps["B"])
  /\ LiveKeys(heap, maps["A"]) # LiveKeys(heap, maps["B"])

Clamped(x) == IF x < 20 THEN 20 ELSE IF x > 75 THEN 75 ELSE x

\* C11: after set_max_load_factor(x) has returned, max_load_factor() is x
\* clamped into [0.20, 0.75], whatever the state it was called in; and
\* max_load_factor() is within [0.20, 0.75] in every reachable state.
C11_MaxLoadFactorClamped ==
  /\ [](\A o \in Objs :
          max_load_factor(maps[o]) >= 20 /\ max_load_factor(maps[o]) <= 75)
  /\ [][\A o \in Objs, x \in LoadFactors :
          SetMaxLoadFactor(o, x) /\ status' = "ok" =>
            max_load_factor(maps'[o]) = Clamped(x)]_vars

\* C12: remove(k) of a key that is not live (never inserted, or removed
\* already) is a no-op: it returns, and size(), capacity(), the mark, key and
\* value of every slot, and so contains and at of every key, are as they
\* were; hence a second remove(k) changes nothing.
C12_RemoveAbsentNoOp ==
  [][\A o \in Objs, k \in Keys :
       Remove(o, k) /\ LiveSlots(heap, maps[o], k) = {} =>
         /\ status' = "ok"
         /\ heap' = heap
         /\ maps' = maps]_vars

\* C13: for every requested size n and load factor f, the constructed map has
\* capacity() the smallest power of two that is >= max(n, 4),
\* max_load_factor() f clamped into [0.20, 0.75], threshold floor(
\* max_load_factor x capacity), size() 0 and every slot Empty.
C13_ConstructorNormalizes ==
  [][\A w \in CtorSizes, f \in CtorArgLoadFactors :
       Reconstruct("A", w.hi, w.lo, f) =>
         LET m == maps'["A"]
         IN /\ IsPowerOfTwo(capacity(m))
            /\ capacity(m) >= 4
            /\ w.hi = 0 /\ capacity(m) >= w.lo
            /\ capacity(m) = 4 \/ capacity(m) \div 2 < w.lo
            /\ max_load_factor(m) = Clamped(f)
            /\ m.threshold_size_ = (Clamped(f) * capacity(m)) \div 100
            /\ size(m) = 0
            /\ Indexable(heap', m)
            /\ \A i \in 0..(capacity(m) - 1) : heap'[m.marks_][i] = "null"]_vars

\* C14: in every state reached by inserts and removes, seek(k) ends for
\* every key k, present or absent, within capacity probe steps: there is an
\* Empty slot, or a slot that holds k, on the probe chain of k.
C14_SeekTerminates ==
  \A k \in SeekKeys :
    Indexable(heap, maps["A"]) => seek(heap, maps["A"], k) # NoIndex

\* the slot seek(k) resolves in m is Empty (its mark is null)
ResolvesEmpty(h, m, k) ==
  /\ Indexable(h, m)
  /\ seek(h, m, k) # NoIndex
  /\ h[m.marks_][seek(h, m, k)] = "null"

\* C15: when insert(k, v) resolves to an Empty slot while count >= threshold,
\* the growth loop ends after finitely many growth steps and the operation
\* returns with k inserted: the call returns, k is live and maps to v.
C15_GrowthLoopTerminates ==
  [][\A k \in Keys, v \in Vals :
       /\ ResolvesEmpty(heap, maps["A"], k)
       /\ SizeGE(maps["A"].size_, maps["A"].threshold_size_)
       /\ Insert("A", k, v)
       => /\ status' = "ok"
          /\ contains(heap', maps'["A"], k) = "true"
          /\ at(heap', maps'["A"], k) = Returned(v)]_vars

\* the slots of m marked live (Occupied)
OccupiedSlots(h, m) ==
  IF Usable(h, m)
  THEN {i \in 0..(m.capacity_ - 1) : h[m.marks_][i] = "live"}
  ELSE {}

\* C16: in every reachable state size() is the number of slots marked live,
\* it has not wrapped round below 0, and it is less than capacity().
C16_SizeCountsLiveSlots ==
  /\ size(maps["A"]) = Cardinality(OccupiedSlots(heap, maps["A"]))
  /\ size(maps["A"]) >= 0
  /\ size(maps["A"]) < capacity(maps["A"])

\* the (key, value) pairs in the slots of m marked live
OccupiedEntries(h, m) ==
  {<<h[m.keys_][i], h[m.values_][i]>> : i \in OccupiedSlots(h, m)}

\* C17: a single growth step doubles capacity (4 from 0), sets the threshold
\* to floor(max_load_factor x new capacity), leaves count and
\* max_load_factor as they were, and gives storage that holds exactly the
\* entries that were Occupied and no Tombstone.  The step is the one call of
\* increase_capacity that set_max_load_factor(x) makes, after it has stored
\* the normalised load factor.
C17_GrowthStep ==
  [][\A x \in LoadFactors :
       SetMaxLoadFactor("A", x) /\ status' = "ok" /\ grown' = 1 =>
         LET m == maps["A"]
             n == maps'["A"]
         IN /\ capacity(n) = IF capacity(m) = 0 THEN 4 ELSE 2 * capacity(m)
            /\ n.threshold_size_ = Trunc(normalize_maxlf(x), capacity(n))
            /\ size(n) = size(m)
            /\ max_load_factor(n) = normalize_maxlf(x)
            /\ Indexable(heap', n)
            /\ OccupiedEntries(heap', n) = OccupiedEntries(heap, m)
            /\ Cardinality(OccupiedSlots(heap', n)) =
                 Cardinality(OccupiedSlots(heap, m))
            /\ \A i \in 0..(capacity(n) - 1) : heap'[n.marks_][i] # "dead"]_vars

\* the storage g the growth loop left, and the map n in the heap h the
\* operation left: k and v are in the slot seek(k) resolves in g, which
\* was Empty there, and seek(k) resolves that slot afterwards
WrittenWhereSought(g, h, n, k, v) ==
  /\ g.out = "ok"
  /\ Indexable(g.h, g.m)
  /\ Indexable(h, n)
  /\ seek(g.h, g.m, k) # NoIndex
  /\ g.h[g.m.marks_][seek(g.h, g.m, k)] = "null"
  /\ seek(h, n, k) = seek(g.h, g.m, k)
  /\ h[n.keys_][seek(h, n, k)] = k
  /\ h[n.marks_][seek(h, n, k)] = "live"
  /\ h[n.values_][seek(h, n, k)] = v

\* C18: when insert(k, v) of an absent key triggers growth, k is written
\* into the slot seek(k) resolves in the storage after the growth: that
\* slot was Empty there, no live entry is overwritten (the live entries
\* afterwards are those before and the new one), and seek(k) returns
\* that slot afterwards.
C18_WrittenAtPostGrowthSlot ==
  [][\A k \in Keys, v \in Vals :
       /\ ResolvesEmpty(heap, maps["A"], k)
       /\ Insert("A", k, v)
       /\ grown' >= 1
       => /\ WrittenWhereSought(GrowWhile(heap, maps["A"], 0), heap',
                                maps'["A"], k, v)
          /\ OccupiedEntries(heap', maps'["A"]) =
               OccupiedEntries(heap, maps["A"]) \cup {<<k, v>>}
          /\ Cardinality(OccupiedSlots(heap', maps'["A"])) =
               Cardinality(OccupiedSlots(heap, maps["A"])) + 1]_vars

\* C19: remove(a) changes the lookup result of no other key: for every key
\* b # a, contains(b) and at(b) give the same before and after remove(a),
\* also when b lies behind a on the same probe chain.
C19_RemoveKeepsOtherLookups ==
  [][\A a \in Keys :
       Remove("A", a) /\ status' = "ok" =>
         \A b \in Keys \ {a} :
           /\ contains(heap', maps'["A"], b) = contains(heap, maps["A"], b)
           /\ at(heap', maps'["A"], b) = at(heap, maps["A"], b)]_vars

\* insert(k, v) ended as r: it returned, the capacity is 4 and k is live
\* with the value v
GrewToFourWith(r, k, v) ==
  /\ r.out = "ok"
  /\ capacity(r.m) = 4
  /\ contains(r.h, r.m, k) = "true"
  /\ stored(r.h, r.m, k) = v

\* C20: after clear() the map is in the zero-capacity empty state, size()
\* = 0 and capacity() = 0, and it is usable: for every key k contains(k)
\* returns false and remove(k) returns and changes nothing, neither
\* indexing outside the storage, and insert(k, v) grows the capacity from
\* 0 to 4 and makes k live with the value v.
C20_UsableAfterClear ==
  [][Clear("A") =>
       /\ size(maps'["A"]) = 0
       /\ capacity(maps'["A"]) = 0
       /\ \A k \in Keys :
            /\ contains(heap', maps'["A"], k) = "false"
            /\ remove(heap', maps'["A"], k) =
                 [h |-> heap', m |-> maps'["A"], out |-> "ok"]
            /\ \A v \in Vals :
                 GrewToFourWith(insert(heap', maps'["A"], k, v), k, v)]_vars

====
